---- MODULE Spec2Model ----
(***************************************************************************)
(* A model of src/StarUtils.js: the custom star control built on top of a  *)
(* host rating question, its click/hover handlers, the deferred public     *)
(* operations (setTimeout callbacks) and the minimum-value listeners.      *)
(***************************************************************************)
EXTENDS Integers, Sequences, FiniteSets

VARIABLES
    shape,      \* per row: the host markup around the .StarsContainer
    value,      \* per row: content of the .ResultsInput field (a string)
    built,      \* per row: the data-starutils-built attribute is '1'
    kids,       \* per row: the children of the .StarsContainer, in order
    style,      \* per row: the styles the widget sets on container and cells
    blurL,      \* per row: 'blur' listeners on the field (their minValue)
    clickL,     \* per row: 'click' listeners on the container (their minValue)
    timers,     \* pending setTimeout callbacks, in registration order
    hist,       \* history: the applySpacing calls made so far (counted up to 2),
                \* whether removeNativeStars was called, the numStars the last
                \* applySpacing asked for, per row the star activated last,
                \* whether applySpacing and applyColorGradient were called
                \* in one turn
    defaultStarIcon,    \* the module's default icon URL
    thrown      \* an error has propagated out of a public call to its caller

vars == <<shape, value, built, kids, style, blurL, clickL, timers, hist,
          defaultStarIcon, thrown>>

----------------------------------------------------------------------------
(* Bounds of the model *)

NumRows == 2        \* .StarsContainer rows under the question root
MaxPending == 2     \* setTimeout callbacks pending when a further call is made
MaxEnforce == 2     \* enforceMinStar calls whose listeners are kept

Rows == 1..NumRows

----------------------------------------------------------------------------
(* JavaScript values *)

Undefined == [def |-> FALSE, val |-> 0]
Num(n) == [def |-> TRUE, val |-> n]

\* a ?? b
Nullish(a, b) == IF a.def THEN a.val ELSE b

\* typeof a === 'string' ? a : b
StringOr(a, b) == IF a.def THEN a.val ELSE b

\* a || b for a string a that may be undefined: the empty string is falsy too
Or(a, b) == IF a.def /\ a.val # "" THEN a.val ELSE b

\* Strings that reach parseInt are sequences of one-character strings.
Digits == <<"0", "1", "2", "3", "4", "5", "6", "7", "8", "9">>
IsDigit(c) == \E d \in 1..10 : Digits[d] = c
DigitVal(c) == (CHOOSE d \in 1..10 : Digits[d] = c) - 1

NaN == [nan |-> TRUE, val |-> 0]
Number(n) == [nan |-> FALSE, val |-> n]

RECURSIVE DigitPrefix(_)
DigitPrefix(s) ==
    IF s = <<>> \/ ~IsDigit(Head(s)) THEN <<>>
    ELSE <<Head(s)>> \o DigitPrefix(Tail(s))

RECURSIVE DigitsValue(_)
DigitsValue(s) ==
    IF s = <<>> THEN 0
    ELSE 10 * DigitsValue(SubSeq(s, 1, Len(s) - 1)) + DigitVal(s[Len(s)])

RECURSIVE SkipSpace(_)
SkipSpace(s) == IF s # <<>> /\ Head(s) = " " THEN SkipSpace(Tail(s)) ELSE s

\* parseInt(s, 10): leading white space, an optional sign, then the longest
\* run of decimal digits; NaN when that run is empty.
ParseInt(s) ==
    LET t == SkipSpace(s)
        signed == t # <<>> /\ Head(t) \in {"-", "+"}
        body == IF signed THEN Tail(t) ELSE t
        ds == DigitPrefix(body)
    IN  IF ds = <<>> THEN NaN
        ELSE IF signed /\ Head(t) = "-" THEN Number(0 - DigitsValue(ds))
        ELSE Number(DigitsValue(ds))

RECURSIVE NatToString(_)
NatToString(n) ==
    IF n < 10 THEN <<Digits[n + 1]>>
    ELSE NatToString(n \div 10) \o <<Digits[(n % 10) + 1]>>

\* String(n), the conversion an assignment of a number to input.value makes
ToString(n) == IF n < 0 THEN <<"-">> \o NatToString(0 - n) ELSE NatToString(n)

\* v < m for a number v that may be NaN: every comparison with NaN is false
Less(v, m) == ~v.nan /\ v.val < m

----------------------------------------------------------------------------
(* Program constants *)

DefaultSpacing == 20
DefaultStarSize == 30
DefaultNumStars == 5
DefaultMinValue == 1
ApplySpacingDelay == 300
AddLabelsDelay == 300
EnforceDelay == 300
ColorDelay == 200

DefaultStarIconUrl == "twemoji/2b50.svg"
DefaultColors == <<"#ff6666", "#ff9a4d", "#ffd166", "#8be28b", "#66c2ff">>

DefaultLeftText == "Muy insatisfecho"
DefaultRightText == "Muy satisfecho"

----------------------------------------------------------------------------
(* _getQuestionContainer.  The page holds one question element, with the   *)
(* id QuestionId; a caller passes null, a string or an object.            *)

QuestionId == "QID1"

Null == [type |-> "null", id |-> "", nodeType |-> 0]
Id(s) == [type |-> "string", id |-> s, nodeType |-> 0]
\* an object whose nodeType property is n (0 when it has none)
Object(n) == [type |-> "object", id |-> "", nodeType |-> n]

\* the question element, or null
GetQuestionContainer(ref) ==
    IF ref.type = "null" \/ (ref.type = "string" /\ ref.id = "") THEN "null"
    ELSE IF ref.type = "string"
         THEN (IF ref.id = QuestionId THEN "question" ELSE "null")
    ELSE IF ref.nodeType # 0 THEN "question"
    ELSE "null"

Resolves(ref) == GetQuestionContainer(ref) # "null"

----------------------------------------------------------------------------
(* DOM nodes.  A node is a record with a class; the nodes the widget makes  *)
(* carry the fields the code sets on them.                                 *)

Element(cls) == [cls |-> cls]

NativeParts ==
    <<Element("StarTrack"), Element("Filled"),
      Element("StarsEventWatcher"), Element("handle")>>

IsWrapper(n) == n.cls = "starutils-wrapper"
IsFlex(n) == n.cls = "star-flex-wrapper"

\* The paths, under a container's children, of the .starutils-wrapper nodes
\* (querySelectorAll): directly under the container or inside a flex wrapper.
WrapperPaths(ks) ==
    {<<k>> : k \in {k \in DOMAIN ks : IsWrapper(ks[k])}}
    \cup UNION {{<<k, j>> : j \in {j \in DOMAIN ks[k].kids : IsWrapper(ks[k].kids[j])}}
                : k \in {k \in DOMAIN ks : IsFlex(ks[k])}}

NodeAt(ks, p) == IF Len(p) = 1 THEN ks[p[1]] ELSE ks[p[1]].kids[p[2]]

ReplaceAt(ks, p, n) ==
    IF Len(p) = 1 THEN [ks EXCEPT ![p[1]] = n]
    ELSE [ks EXCEPT ![p[1]].kids[p[2]] = n]

\* el.parentNode.removeChild(el) for el = c.querySelector(selector)
RemoveFirst(ks, cls) ==
    IF \E k \in DOMAIN ks : ks[k].cls = cls
    THEN LET k == CHOOSE k \in DOMAIN ks :
                    ks[k].cls = cls /\ \A j \in 1..(k - 1) : ks[j].cls # cls
         IN  SubSeq(ks, 1, k - 1) \o SubSeq(ks, k + 1, Len(ks))
    ELSE ks

\* c.innerHTML = ''
ClearInnerHTML(ks) == <<>>

\* The body of removeNativeStars for one container: its children afterwards
RemoveNativeIn(ks) ==
    ClearInnerHTML(
        RemoveFirst(RemoveFirst(RemoveFirst(RemoveFirst(ks,
            "StarTrack"), "Filled"), "StarsEventWatcher"), "handle"))

----------------------------------------------------------------------------
(* _buildCustomStarsForContainer *)

Dimmed == "0.35"
Active == "1"

\* updateVisual(v) on the stars of wrapper w (idx is 0-based in the code)
UpdateVisual(w, v) ==
    [w EXCEPT !.kids = [k \in DOMAIN w.kids |->
        [w.kids[k] EXCEPT !.opacity = IF k - 1 < v THEN Active ELSE Dimmed]]]

\* img.style.backgroundColor of a star no color was assigned to
NoColor == ""

\* one <img>, as the loop creates it
NewStar(i, starSize, starIcon) ==
    [cls |-> "starutils-star", value |-> i, width |-> starSize,
     height |-> starSize, opacity |-> Dimmed, src |-> starIcon,
     color |-> NoColor]

\* the loop stopping one star early (i < numStars)
NewWrapperShort(spacing, starSize, numStars, starIcon) ==
    [cls |-> "starutils-wrapper", gap |-> spacing, height |-> starSize,
     kids |-> [i \in 1..(numStars - 1) |-> NewStar(i, starSize, starIcon)],
     sel |-> 0]

\* the wrapper with its stars; sel is the closure variable selectedValue
NewWrapper(spacing, starSize, numStars, starIcon) ==
    [cls |-> "starutils-wrapper", gap |-> spacing, height |-> starSize,
     kids |-> [i \in 1..numStars |-> NewStar(i, starSize, starIcon)],
     sel |-> 0]

\* the icon taken from the URL the module started with
StarIconInitial(opts, default) == Or(opts.starIcon, DefaultStarIconUrl)

\* opts.starIcon || defaultStarIcon, with the default as it is at the call
StarIconOf(opts, default) == Or(opts.starIcon, default)

\* the container's marker and children after _buildCustomStarsForContainer
BuildCustomStars(isBuilt, ks, opts, default) ==
    IF isBuilt THEN [built |-> TRUE, kids |-> ks]
    ELSE [built |-> TRUE,
          kids |-> Append(ks, NewWrapper(opts.spacing, opts.starSize,
                                         opts.numStars, StarIconOf(opts, default)))]

----------------------------------------------------------------------------
(* Event handlers.  An effect is one thing a handler did to a row's field *)
(* or to its stars; a handler's effects are listed in the order it makes  *)
(* them.                                                                   *)

Wrote(r, c) == [ev |-> "write", row |-> r, val |-> c]
Notified(kind, r, c) == [ev |-> kind, row |-> r, val |-> c]
Rendered(r, v) == [ev |-> "render", row |-> r, v |-> v]
Enforced(r, m, before, after) ==
    [ev |-> "enforce", row |-> r, min |-> m, before |-> before, after |-> after]

\* The host markup of a row is "full" (the container sits in a tr that holds
\* a .ResultsInput field, a td.value and a td.control), "noinput" (the tr
\* holds no field) or "notr" (the container sits in no tr at all).
\* tr.querySelector('.ResultsInput') finds a field from the container
HasField(r) == shape[r] = "full"
\* container.closest('tr') finds a row element
HasTr(r) == shape[r] # "notr"

\* enforce() with the comparison turned round (v > minValue)
EnforceInverted(content, m) ==
    LET v == ParseInt(IF content = <<>> THEN <<"0">> ELSE content)
    IN  IF ~v.nan /\ v.val > m THEN ToString(m) ELSE content

\* enforce(): the content of the field after the check with minimum m
Enforce(content, m) ==
    LET v == ParseInt(IF content = <<>> THEN <<"0">> ELSE content)
    IN  IF Less(v, m) THEN ToString(m) ELSE content

\* The enforce listeners ls (their minimums), run in the order they were added
RECURSIVE RunEnforce(_, _, _)
RunEnforce(r, content, ls) ==
    IF ls = <<>> THEN [value |-> content, effects |-> <<>>]
    ELSE LET after == Enforce(content, Head(ls))
             rest == RunEnforce(r, after, Tail(ls))
         IN  [value |-> rest.value,
              effects |-> <<Enforced(r, Head(ls), content, after)>> \o rest.effects]

\* the click listener notifying the host before it writes the field
IconClickNotifiesFirst(r, w, content, i) ==
    LET w1 == [w EXCEPT !.sel = i]
        written == ToString(w1.sel)
    IN  IF HasField(r)
        THEN [wrapper |-> UpdateVisual(w1, w1.sel),
              value |-> written,
              effects |-> <<Notified("input", r, content),
                            Notified("change", r, content), Wrote(r, written),
                            Rendered(r, w1.sel)>>]
        ELSE [wrapper |-> UpdateVisual(w1, w1.sel),
              value |-> content,
              effects |-> <<Rendered(r, w1.sel)>>]

\* the click listener rendering before it assigns selectedValue
IconClickStale(r, w, content, i) ==
    LET w1 == [w EXCEPT !.sel = i]
        written == ToString(w1.sel)
    IN  IF HasField(r)
        THEN [wrapper |-> [UpdateVisual(w, w.sel) EXCEPT !.sel = i],
              value |-> written,
              effects |-> <<Rendered(r, w.sel), Wrote(r, written),
                            Notified("input", r, written),
                            Notified("change", r, written)>>]
        ELSE [wrapper |-> [UpdateVisual(w, w.sel) EXCEPT !.sel = i],
              value |-> content,
              effects |-> <<Rendered(r, w.sel)>>]

\* The click listener of star i of wrapper w in row r
IconClick(r, w, content, i) ==
    LET w1 == [w EXCEPT !.sel = i]
        written == ToString(w1.sel)
    IN  IF HasField(r)
        THEN [wrapper |-> UpdateVisual(w1, w1.sel),
              value |-> written,
              effects |-> <<Wrote(r, written), Notified("input", r, written),
                            Notified("change", r, written), Rendered(r, w1.sel)>>]
        ELSE [wrapper |-> UpdateVisual(w1, w1.sel),
              value |-> content,
              effects |-> <<Rendered(r, w1.sel)>>]

\* a mouseenter listener that also selects, a mouseleave listener that dims all
IconEnterSelects(r, w, i) ==
    [wrapper |-> [UpdateVisual(w, i) EXCEPT !.sel = i], effects |-> <<Rendered(r, i)>>]
IconLeaveDims(r, w) ==
    [wrapper |-> UpdateVisual(w, 0), effects |-> <<Rendered(r, 0)>>]

\* The mouseenter listener of star i, and the mouseleave listener of any star
IconEnter(r, w, i) ==
    [wrapper |-> UpdateVisual(w, i), effects |-> <<Rendered(r, i)>>]
IconLeave(r, w) ==
    [wrapper |-> UpdateVisual(w, w.sel), effects |-> <<Rendered(r, w.sel)>>]

Stars(r, p) == NodeAt(kids[r], p).kids

\* A click on star i of the wrapper at path p, fully handled: the star's own
\* listener, then the click listeners of the container the click bubbles to
ClickOutcome(r, p, i) ==
    LET c == IconClick(r, NodeAt(kids[r], p), value[r], i)
        e == RunEnforce(r, c.value, clickL[r])
    IN  [wrapper |-> c.wrapper, value |-> e.value, effects |-> c.effects \o e.effects]

\* A click inside the container but on no star, and a blur of the field
RegionOutcome(r) == RunEnforce(r, value[r], clickL[r])
BlurOutcome(r) == RunEnforce(r, value[r], blurL[r])

----------------------------------------------------------------------------
(* User and host events *)

\* the click writing the first field of the question, not the row's own
ClickIconSharedField(r, p, i) ==
    /\ p \in WrapperPaths(kids[r])
    /\ i \in DOMAIN Stars(r, p)
    /\ kids' = [kids EXCEPT ![r] = ReplaceAt(kids[r], p, ClickOutcome(r, p, i).wrapper)]
    /\ value' = [q \in Rows |->
                    IF HasField(r) /\ HasField(q) /\ \A n \in 1..(q - 1) : ~HasField(n)
                    THEN ClickOutcome(r, p, i).value ELSE value[q]]
    /\ hist' = [hist EXCEPT !.activated[r] = i]
    /\ UNCHANGED <<defaultStarIcon, thrown, shape, built, style, blurL, clickL, timers>>

ClickIcon(r, p, i) ==
    /\ p \in WrapperPaths(kids[r])
    /\ i \in DOMAIN Stars(r, p)
    /\ kids' = [kids EXCEPT ![r] = ReplaceAt(kids[r], p, ClickOutcome(r, p, i).wrapper)]
    /\ value' = [value EXCEPT ![r] = ClickOutcome(r, p, i).value]
    /\ hist' = [hist EXCEPT !.activated[r] = i]
    /\ UNCHANGED <<defaultStarIcon, thrown, shape, built, style, blurL, clickL, timers>>

MouseEnter(r, p, i) ==
    /\ p \in WrapperPaths(kids[r])
    /\ i \in DOMAIN Stars(r, p)
    /\ kids' = [kids EXCEPT ![r] =
                  ReplaceAt(kids[r], p, IconEnter(r, NodeAt(kids[r], p), i).wrapper)]
    /\ UNCHANGED <<defaultStarIcon, thrown, shape, value, built, style, blurL, clickL, timers, hist>>

MouseLeave(r, p, i) ==
    /\ p \in WrapperPaths(kids[r])
    /\ i \in DOMAIN Stars(r, p)
    /\ kids' = [kids EXCEPT ![r] =
                  ReplaceAt(kids[r], p, IconLeave(r, NodeAt(kids[r], p)).wrapper)]
    /\ UNCHANGED <<defaultStarIcon, thrown, shape, value, built, style, blurL, clickL, timers, hist>>

ClickRegion(r) ==
    /\ clickL[r] # <<>>
    /\ value' = [value EXCEPT ![r] = RegionOutcome(r).value]
    /\ UNCHANGED <<defaultStarIcon, thrown, shape, built, kids, style, blurL, clickL, timers, hist>>

Blur(r) ==
    /\ HasField(r)
    /\ blurL[r] # <<>>
    /\ value' = [value EXCEPT ![r] = BlurOutcome(r).value]
    /\ UNCHANGED <<defaultStarIcon, thrown, shape, built, kids, style, blurL, clickL, timers, hist>>

\* the host page (or the respondent typing) sets the field, not the widget
HostWrite(r, c) ==
    /\ HasField(r)
    /\ value[r] # c
    /\ value' = [value EXCEPT ![r] = c]
    /\ UNCHANGED <<defaultStarIcon, thrown, shape, built, kids, style, blurL, clickL, timers, hist>>

----------------------------------------------------------------------------
(* setTimeout: the pending callbacks, each with the time left until it is   *)
(* due.  Callbacks due at the same time run in registration order.         *)

\* the finest difference between two delays of the program
TimeStep == ApplySpacingDelay - ColorDelay

CanSchedule == Len(timers) < MaxPending

Due(k) == timers[k].left = 0
FirstDue(k) == Due(k) /\ \A j \in 1..(k - 1) : ~Due(j)
Without(k) == SubSeq(timers, 1, k - 1) \o SubSeq(timers, k + 1, Len(timers))

Count(op) == IF hist[op] < 2 THEN hist[op] + 1 ELSE hist[op]

\* time passes while no callback is due
Tick ==
    /\ timers # <<>>
    /\ \A k \in DOMAIN timers : timers[k].left >= TimeStep
    /\ timers' = [k \in DOMAIN timers |->
                    [timers[k] EXCEPT !.left = timers[k].left - TimeStep]]
    /\ UNCHANGED <<defaultStarIcon, thrown, shape, value, built, kids, style, blurL, clickL, hist>>

----------------------------------------------------------------------------
(* removeNativeStars *)

RemoveNativeStyle(st) == [st EXCEPT !.background = "none"]

\* the public operation runs at once, with no timer
RemoveNativeStars ==
    /\ kids' = [r \in Rows |-> RemoveNativeIn(kids[r])]
    /\ style' = [r \in Rows |-> RemoveNativeStyle(style[r])]
    /\ hist' = [hist EXCEPT !.removeNativeStars = 1]
    /\ UNCHANGED <<defaultStarIcon, thrown, shape, value, built, blurL, clickL, timers>>

----------------------------------------------------------------------------
(* applySpacing *)

ApplySpacingTimer(o) ==
    [op |-> "applySpacing", left |-> ApplySpacingDelay,
     spacing |-> Nullish(o.spacing, DefaultSpacing),
     starSize |-> Nullish(o.starSize, DefaultStarSize),
     numStars |-> Nullish(o.numStars, DefaultNumStars)]

ApplySpacing(o) ==
    /\ CanSchedule
    /\ timers' = Append(timers, ApplySpacingTimer(o))
    /\ hist' = [hist EXCEPT !.applySpacing = Count("applySpacing"),
                            !.numStars = ApplySpacingTimer(o).numStars]
    /\ UNCHANGED <<defaultStarIcon, thrown, shape, value, built, kids, style, blurL, clickL>>

\* the width of the stars alone, without the gaps between them
TotalWidthNoGaps(t) == t.numStars * t.starSize

\* totalWidth of the callback
TotalWidth(t) == t.numStars * t.starSize + (t.numStars - 1) * t.spacing

\* the deferred callback, for one container: marker, children and styles after
ApplySpacingRow(r, t) ==
    LET removed == RemoveNativeIn(kids[r])
        cleared == ClearInnerHTML(removed)
        b == BuildCustomStars(built[r], cleared,
                              [spacing |-> t.spacing, starSize |-> t.starSize,
                               numStars |-> t.numStars, starIcon |-> Undefined],
                              defaultStarIcon)
        st == [RemoveNativeStyle(style[r]) EXCEPT !.display = "inline-block"]
    IN  [built |-> b.built, kids |-> b.kids,
         style |-> IF HasTr(r)
                   THEN [st EXCEPT !.paddingLeft = Num(TotalWidth(t) - 60),
                                   !.minWidth = Num(TotalWidth(t))]
                   ELSE st]

RunApplySpacing(k) ==
    /\ FirstDue(k)
    /\ timers[k].op = "applySpacing"
    /\ built' = [r \in Rows |-> ApplySpacingRow(r, timers[k]).built]
    /\ kids' = [r \in Rows |-> ApplySpacingRow(r, timers[k]).kids]
    /\ style' = [r \in Rows |-> ApplySpacingRow(r, timers[k]).style]
    /\ timers' = Without(k)
    /\ UNCHANGED <<defaultStarIcon, thrown, shape, value, blurL, clickL, hist>>

----------------------------------------------------------------------------
(* addLabels *)

\* addLabels waiting only as long as applyColorGradient does
AddLabelsTimerEarly(o) ==
    [op |-> "addLabels", left |-> ColorDelay,
     leftText |-> StringOr(o.leftText, DefaultLeftText),
     rightText |-> StringOr(o.rightText, DefaultRightText)]

AddLabelsTimer(o) ==
    [op |-> "addLabels", left |-> AddLabelsDelay,
     leftText |-> StringOr(o.leftText, DefaultLeftText),
     rightText |-> StringOr(o.rightText, DefaultRightText)]

AddLabels(o) ==
    /\ CanSchedule
    /\ timers' = Append(timers, AddLabelsTimer(o))
    /\ UNCHANGED <<defaultStarIcon, thrown, shape, value, built, kids, style, blurL, clickL, hist>>

Label(cls, text) == [cls |-> cls, text |-> text]

FlexWrap(w, leftText, rightText) ==
    [cls |-> "star-flex-wrapper",
     kids |-> <<Label("star-label-left", leftText), w,
                Label("star-label-right", rightText)>>]

\* starsWrapper.parentNode.classList.contains('star-flex-wrapper')
ParentIsFlex(p) == Len(p) = 2

\* the loop body without its guard against wrapping twice
LabelWrapperAgain(ks, p, leftText, rightText) ==
    ReplaceAt(ks, p, FlexWrap(NodeAt(ks, p), leftText, rightText))

\* one pass of the loop body, for the wrapper at path p
LabelWrapper(ks, p, leftText, rightText) ==
    IF ParentIsFlex(p) THEN ks
    ELSE ReplaceAt(ks, p, FlexWrap(NodeAt(ks, p), leftText, rightText))

\* The loop over the wrappers of one container.  A wrapper directly under
\* the container keeps its index when another one is wrapped, so the passes
\* can be taken in any order.
RECURSIVE LabelAll(_, _, _, _)
LabelAll(ks, ps, leftText, rightText) ==
    IF ps = {} THEN ks
    ELSE LET p == CHOOSE p \in ps : TRUE
         IN  LabelAll(LabelWrapper(ks, p, leftText, rightText), ps \ {p},
                      leftText, rightText)

RunAddLabels(k) ==
    /\ FirstDue(k)
    /\ timers[k].op = "addLabels"
    /\ kids' = [r \in Rows |->
                  LabelAll(kids[r], WrapperPaths(kids[r]),
                           timers[k].leftText, timers[k].rightText)]
    /\ timers' = Without(k)
    /\ UNCHANGED <<defaultStarIcon, thrown, shape, value, built, style, blurL, clickL, hist>>

----------------------------------------------------------------------------
(* enforceMinStar *)

EnforceTimer(minValue) ==
    [op |-> "enforceMinStar", left |-> EnforceDelay,
     minValue |-> Nullish(minValue, DefaultMinValue)]

\* enforceMinStar calls made so far whose listeners are pending or attached
EnforceCalls ==
    Cardinality({k \in DOMAIN timers : timers[k].op = "enforceMinStar"})
    + Len(blurL[CHOOSE r \in Rows : \A q \in Rows : Len(blurL[q]) <= Len(blurL[r])])

EnforceMinStar(minValue) ==
    /\ CanSchedule
    /\ EnforceCalls < MaxEnforce
    /\ timers' = Append(timers, EnforceTimer(minValue))
    /\ UNCHANGED <<defaultStarIcon, thrown, shape, value, built, kids, style, blurL, clickL, hist>>

RunEnforceMinStar(k) ==
    /\ FirstDue(k)
    /\ timers[k].op = "enforceMinStar"
    /\ blurL' = [r \in Rows |->
                   IF HasField(r) THEN Append(blurL[r], timers[k].minValue)
                   ELSE blurL[r]]
    /\ clickL' = [r \in Rows |->
                    IF HasField(r) THEN Append(clickL[r], timers[k].minValue)
                    ELSE clickL[r]]
    /\ timers' = Without(k)
    /\ UNCHANGED <<defaultStarIcon, thrown, shape, value, built, kids, style, hist>>

----------------------------------------------------------------------------
(* applyColorGradient *)

\* options.colors || [...]: an array, even an empty one, is truthy
ArrayOr(a, b) == IF a.def THEN a.val ELSE b

ColorTimer(o) ==
    [op |-> "applyColorGradient", left |-> ColorDelay,
     colors |-> ArrayOr(o.colors, DefaultColors)]

ApplyColorGradient(o) ==
    /\ CanSchedule
    /\ timers' = Append(timers, ColorTimer(o))
    /\ UNCHANGED <<defaultStarIcon, thrown, shape, value, built, kids, style, blurL, clickL, hist>>

\* colors[idx] || colors[colors.length - 1], for the 0-based idx
ColorAt(colors, idx) ==
    IF colors = <<>> THEN NoColor
    ELSE IF idx < Len(colors) /\ colors[idx + 1] # "" THEN colors[idx + 1]
    ELSE colors[Len(colors)]

IsStar(n) == n.cls = "starutils-star"
HasKids(n) == IsWrapper(n) \/ IsFlex(n)

\* the img.starutils-star elements among the nodes ks and below them
RECURSIVE ImgCount(_)
ImgCount(ks) ==
    IF Len(ks) = 0 THEN 0
    ELSE (IF IsStar(ks[1]) THEN 1
          ELSE IF HasKids(ks[1]) THEN ImgCount(ks[1].kids)
          ELSE 0)
         + ImgCount(SubSeq(ks, 2, Len(ks)))

\* the imgs of the rows before row r: querySelectorAll lists the imgs of the
\* whole question in document order
RECURSIVE ImgsBefore(_)
ImgsBefore(r) == IF r = 1 THEN 0 ELSE ImgsBefore(r - 1) + ImgCount(kids[r - 1])

\* the forEach of the callback over the nodes ks, the first img having index idx
RECURSIVE Paint(_, _, _)
Paint(ks, colors, idx) ==
    IF Len(ks) = 0 THEN <<>>
    ELSE <<IF IsStar(ks[1]) THEN [ks[1] EXCEPT !.color = ColorAt(colors, idx)]
           ELSE IF HasKids(ks[1])
                THEN [ks[1] EXCEPT !.kids = Paint(ks[1].kids, colors, idx)]
           ELSE ks[1]>>
         \o Paint(SubSeq(ks, 2, Len(ks)), colors, idx + ImgCount(<<ks[1]>>))

RunApplyColorGradient(k) ==
    /\ FirstDue(k)
    /\ timers[k].op = "applyColorGradient"
    /\ kids' = [r \in Rows |-> Paint(kids[r], timers[k].colors, ImgsBefore(r))]
    /\ timers' = Without(k)
    /\ UNCHANGED <<defaultStarIcon, thrown, shape, value, built, style, blurL, clickL, hist>>

\* applySpacing and applyColorGradient called in that order in one turn
SpacingThenColors(o, co) ==
    /\ timers = <<>>
    /\ timers' = <<ApplySpacingTimer(o), ColorTimer(co)>>
    /\ hist' = [hist EXCEPT !.applySpacing = Count("applySpacing"),
                            !.numStars = ApplySpacingTimer(o).numStars,
                            !.together = TRUE]
    /\ UNCHANGED <<defaultStarIcon, thrown, shape, value, built, kids, style, blurL, clickL>>

----------------------------------------------------------------------------
(* setStarIcon *)

\* the default after setStarIcon(url); the empty string is falsy
NewDefaultIcon(cur, url) == IF url # "" THEN url ELSE cur

SetStarIcon(url) ==
    /\ defaultStarIcon' = NewDefaultIcon(defaultStarIcon, url)
    /\ UNCHANGED <<thrown, shape, value, built, kids, style, blurL, clickL, timers, hist>>

----------------------------------------------------------------------------
(* The public operations as a caller reaches them: with any root reference *)
(* and with the options argument given or left out                         *)

\* a TypeError leaves the call: reading a property of undefined
Throw ==
    /\ thrown' = TRUE
    /\ UNCHANGED <<defaultStarIcon, shape, value, built, kids, style, blurL, clickL, timers, hist>>

\* options.spacing is read before the root is resolved
ApplySpacingCall(ref, given, o) ==
    IF ~given THEN Throw
    ELSE IF ~Resolves(ref) THEN UNCHANGED vars
    ELSE ApplySpacing(o)

\* options.colors is read before the root is resolved
ApplyColorGradientCall(ref, given, o) ==
    IF ~given THEN Throw
    ELSE IF ~Resolves(ref) THEN UNCHANGED vars
    ELSE ApplyColorGradient(o)

\* options || {}
AddLabelsCall(ref, given, o) ==
    IF ~Resolves(ref) THEN UNCHANGED vars
    ELSE AddLabels(IF given THEN o ELSE [leftText |-> Undefined, rightText |-> Undefined])

EnforceMinStarCall(ref, minValue) ==
    IF ~Resolves(ref) THEN UNCHANGED vars
    ELSE EnforceMinStar(minValue)

RemoveNativeStarsCall(ref) ==
    IF ~Resolves(ref) THEN UNCHANGED vars
    ELSE RemoveNativeStars

----------------------------------------------------------------------------
(* The documented usage: the three calls of the onload function, made in   *)
(* one turn when the page has loaded, before any other call                *)

Onload(o, lo, minValue) ==
    /\ timers = <<>>
    /\ hist.applySpacing = 0
    /\ timers' = timers \o <<ApplySpacingTimer(o), AddLabelsTimer(lo),
                             EnforceTimer(minValue)>>
    /\ hist' = [hist EXCEPT !.applySpacing = Count("applySpacing"),
                            !.numStars = ApplySpacingTimer(o).numStars]
    /\ UNCHANGED <<defaultStarIcon, thrown, shape, value, built, kids, style, blurL, clickL>>

----------------------------------------------------------------------------
(* Inputs *)

Shapes == {"full", "noinput", "notr"}

SpacingOptions ==
    {[spacing |-> Undefined, starSize |-> Undefined, numStars |-> Undefined],
     [spacing |-> Num(10), starSize |-> Num(24), numStars |-> Num(2)]}

LabelOptions ==
    {[leftText |-> Undefined, rightText |-> Undefined],
     [leftText |-> [def |-> TRUE, val |-> "Malo"], rightText |-> Undefined]}

MinValues == {Undefined, Num(3)}

DefaultLabels == [leftText |-> Undefined, rightText |-> Undefined]

UseOptions == {[spacing |-> Num(10), starSize |-> Num(24), numStars |-> Num(2)]}

HostContents == {<<>>, <<"x">>, <<"0">>, <<"4">>, <<"2", "x">>}

ColorOptions ==
    {[colors |-> Undefined],
     [colors |-> [def |-> TRUE, val |-> <<"#a", "#b">>]],
     [colors |-> [def |-> TRUE, val |-> <<"#a", "#b", "#c">>]]}

DefaultGradient == [colors |-> Undefined]

IconUrls == {"", "a.svg", "b.svg"}

RootRefs == {Null, Id(QuestionId), Id("QID9"), Id(""), Object(1), Object(0)}

----------------------------------------------------------------------------
(* The state after the host page has rendered the question *)

InitStyle ==
    [background |-> "host", display |-> "host",
     minWidth |-> Undefined, paddingLeft |-> Undefined]

Init ==
    /\ shape \in [Rows -> Shapes]
    /\ value = [r \in Rows |-> <<>>]
    /\ built = [r \in Rows |-> FALSE]
    /\ kids = [r \in Rows |-> NativeParts]
    /\ style = [r \in Rows |-> InitStyle]
    /\ blurL = [r \in Rows |-> <<>>]
    /\ clickL = [r \in Rows |-> <<>>]
    /\ timers = <<>>
    /\ hist = [applySpacing |-> 0, removeNativeStars |-> 0, numStars |-> 0,
               activated |-> [r \in Rows |-> 0], together |-> FALSE]
    /\ defaultStarIcon = DefaultStarIconUrl
    /\ thrown = FALSE

RunTimer ==
    \E k \in DOMAIN timers :
        \/ RunApplySpacing(k)
        \/ RunAddLabels(k)
        \/ RunEnforceMinStar(k)
        \/ RunApplyColorGradient(k)

IconEvent ==
    \E r \in Rows : \E p \in WrapperPaths(kids[r]) : \E i \in DOMAIN Stars(r, p) :
        \/ ClickIcon(r, p, i)
        \/ MouseEnter(r, p, i)
        \/ MouseLeave(r, p, i)

FieldEvent ==
    \E r \in Rows :
        \/ ClickRegion(r)
        \/ Blur(r)
        \/ \E c \in HostContents : HostWrite(r, c)

\* Every operation, with every input
Next ==
    \/ \E o \in SpacingOptions : ApplySpacing(o)
    \/ \E o \in LabelOptions : AddLabels(o)
    \/ \E m \in MinValues : EnforceMinStar(m)
    \/ \E o \in SpacingOptions : \E lo \in LabelOptions : \E m \in MinValues :
          Onload(o, lo, m)
    \/ RemoveNativeStars
    \/ \E o \in ColorOptions : ApplyColorGradient(o)
    \/ \E o \in SpacingOptions : \E co \in ColorOptions : SpacingThenColors(o, co)
    \/ \E u \in IconUrls : SetStarIcon(u)
    \/ \E ref \in RootRefs : \E given \in BOOLEAN :
          \/ \E o \in SpacingOptions : ApplySpacingCall(ref, given, o)
          \/ \E o \in ColorOptions : ApplyColorGradientCall(ref, given, o)
          \/ \E o \in LabelOptions : AddLabelsCall(ref, given, o)
    \/ \E ref \in RootRefs :
          \/ \E m \in MinValues : EnforceMinStarCall(ref, m)
          \/ RemoveNativeStarsCall(ref)
    \/ Tick
    \/ RunTimer
    \/ IconEvent
    \/ FieldEvent

Spec == Init /\ [][Next]_vars

\* The respondent's use of a question set up by the documented onload
\* function, with more enforceMinStar calls at any time
NextUse ==
    \/ \E o \in UseOptions : \E m \in MinValues :
          Onload(o, DefaultLabels, m)
    \/ \E m \in MinValues : EnforceMinStar(m)
    \/ Tick
    \/ RunTimer
    \/ IconEvent
    \/ FieldEvent

SpecUse == Init /\ [][NextUse]_vars

\* The public operations in any order and number, with activations between
NextBuild ==
    \/ \E o \in SpacingOptions : ApplySpacing(o)
    \/ \E o \in LabelOptions : AddLabels(o)
    \/ RemoveNativeStars
    \/ Tick
    \/ RunTimer
    \/ \E r \in Rows : \E p \in WrapperPaths(kids[r]) : \E i \in DOMAIN Stars(r, p) :
          ClickIcon(r, p, i)

SpecBuild == Init /\ [][NextBuild]_vars

\* The public operations as callers reach them, with any root reference
CallSpacing ==
    \E ref \in RootRefs : \E given \in BOOLEAN : \E o \in UseOptions :
        ApplySpacingCall(ref, given, o)
CallColors ==
    \E ref \in RootRefs : \E given \in BOOLEAN :
        ApplyColorGradientCall(ref, given, DefaultGradient)
CallLabels ==
    \E ref \in RootRefs : \E given \in BOOLEAN :
        AddLabelsCall(ref, given, DefaultLabels)
CallEnforce ==
    \E ref \in RootRefs : EnforceMinStarCall(ref, Undefined)
CallRemove ==
    \E ref \in RootRefs : RemoveNativeStarsCall(ref)

NextCalls ==
    \/ CallSpacing
    \/ CallColors
    \/ CallLabels
    \/ CallEnforce
    \/ CallRemove
    \/ Tick
    \/ RunTimer

SpecCalls == Init /\ [][NextCalls]_vars

\* Building and colouring, in one turn or in separate ones
NextColor ==
    \/ \E o \in SpacingOptions : ApplySpacing(o)
    \/ \E co \in ColorOptions : ApplyColorGradient(co)
    \/ \E o \in SpacingOptions : \E co \in ColorOptions : SpacingThenColors(o, co)
    \/ Tick
    \/ RunTimer

SpecColor == Init /\ [][NextColor]_vars

\* The respondent's pointer on the stars of a question that was built
NextHover ==
    \/ \E o \in UseOptions : ApplySpacing(o)
    \/ Tick
    \/ RunTimer
    \/ IconEvent

SpecHover == Init /\ [][NextHover]_vars

\* Building while the default icon is changed
NextIcon ==
    \/ \E o \in SpacingOptions : ApplySpacing(o)
    \/ \E u \in IconUrls : SetStarIcon(u)
    \/ RemoveNativeStars
    \/ Tick
    \/ RunTimer

SpecIcon == Init /\ [][NextIcon]_vars

----------------------------------------------------------------------------
(* What the claims speak of *)

Range(s) == {s[k] : k \in DOMAIN s}
MaxOf(S) == CHOOSE x \in S : \A y \in S : y <= x

\* exactly the stars with index <= v are in the active visual state
Shows(w, v) ==
    \A k \in DOMAIN w.kids :
        w.kids[k].opacity = IF w.kids[k].value <= v THEN Active ELSE Dimmed

Control(r, p) == NodeAt(kids[r], p)

----------------------------------------------------------------------------
(* C1 *)

\* C1 as stated: in every row with a native value field, whatever happened
\* before (hovers, activations, enforce listeners with any minimum), once the
\* click on star i is fully handled exactly the stars <= i are active and the
\* field holds i.
C1_ActivationKeepsIndex ==
    \A r \in Rows : HasField(r) =>
        \A p \in WrapperPaths(kids[r]) : \A i \in DOMAIN Stars(r, p) :
            LET o == ClickOutcome(r, p, i)
            IN  /\ Shows(o.wrapper, i)
                /\ o.value = ToString(i)

\* C1 as amended: once the click on star i is fully handled exactly the
\* stars <= i are active, selectedValue is i, and the field holds i unless an
\* enforce listener on the rating region has a minimum above i; then the
\* field holds the largest such minimum.
C1_ActivationWithMinimum ==
    \A r \in Rows : HasField(r) =>
        \A p \in WrapperPaths(kids[r]) : \A i \in DOMAIN Stars(r, p) :
            LET o == ClickOutcome(r, p, i)
            IN  /\ Shows(o.wrapper, i)
                /\ o.wrapper.sel = i
                /\ o.value = ToString(MaxOf({i} \cup Range(clickL[r])))

\* a row where star 1 was activated under an enforce listener of minimum 3
C1_Witness ==
    \E r \in Rows : \E p \in WrapperPaths(kids[r]) :
        /\ HasField(r)
        /\ 3 \in Range(clickL[r])
        /\ hist.activated[r] = 1
        /\ Control(r, p).sel = 1
        /\ Shows(Control(r, p), 1)
        /\ value[r] = ToString(3)

----------------------------------------------------------------------------
(* C2 *)

\* the step is the activation of a star of row r whose index the field keeps
ByActivation(r) ==
    \E p \in WrapperPaths(kids[r]) : \E i \in DOMAIN Stars(r, p) :
        ClickIcon(r, p, i) /\ value'[r] = ToString(i)

\* C2 as stated: the bridge also runs from the field to the control.  When a
\* step changes the field of a row other than by activating a star (a write
\* of the host, or an enforce listener rewriting it to its minimum) and the
\* new content is a number of stars the control has, then after the step
\* selectedValue and the visual state equal the new value.
C2_FieldToControl ==
    [][\A r \in Rows :
          (/\ HasField(r)
           /\ value'[r] # value[r]
           /\ ~ByActivation(r))
          => \A p \in WrapperPaths(kids'[r]) :
                LET w == NodeAt(kids'[r], p)
                    n == ParseInt(value'[r])
                IN  (~n.nan /\ n.val \in 0..Len(w.kids))
                    => (w.sel = n.val /\ Shows(w, n.val))]_vars

----------------------------------------------------------------------------
(* C3 *)

EnforceEffects(es) == {es[k] : k \in {k \in DOMAIN es : es[k].ev = "enforce"}}

\* one run of the check, on content that parses to an integer v
CheckMeetsMinimum(e) ==
    LET v == ParseInt(e.before)
        after == ParseInt(e.after)
    IN  ~v.nan =>
            /\ ~after.nan /\ after.val >= e.min
            /\ v.val < e.min => e.after = ToString(e.min)
            /\ v.val >= e.min => e.after = e.before

\* an event handled with these effects, on a field the checks found holding
\* content first: every check meets its minimum, and so does the final value
HandledMeetsMinimum(first, o, ls) ==
    /\ \A e \in EnforceEffects(o.effects) : CheckMeetsMinimum(e)
    /\ ~ParseInt(first).nan =>
          \A m \in Range(ls) : ~ParseInt(o.value).nan /\ ParseInt(o.value).val >= m

\* C3: on a row where enforceMinStar(root, m) attached its listeners, with
\* field content that parses to an integer v, after a blur of the field or a
\* click in the rating region (on a star or beside one) has been handled the
\* field's value is >= m: it is exactly m if the check read v < m, and what
\* the check read if v >= m.
C3_EnforceMinimum ==
    \A r \in Rows : HasField(r) =>
        /\ HandledMeetsMinimum(value[r], BlurOutcome(r), blurL[r])
        /\ HandledMeetsMinimum(value[r], RegionOutcome(r), clickL[r])
        /\ \A p \in WrapperPaths(kids[r]) : \A i \in DOMAIN Stars(r, p) :
              HandledMeetsMinimum(ToString(i), ClickOutcome(r, p, i), clickL[r])

\* a field raised to the minimum 3 on a row where no star was activated
C3_Witness ==
    \E r \in Rows :
        /\ HasField(r)
        /\ 3 \in Range(blurL[r])
        /\ hist.activated[r] = 0
        /\ value[r] = ToString(3)

----------------------------------------------------------------------------
(* C4 *)

\* a decimal integer, with an optional sign
ValidInteger(c) ==
    LET body == IF c # <<>> /\ Head(c) \in {"-", "+"} THEN Tail(c) ELSE c
    IN  body # <<>> /\ \A k \in DOMAIN body : IsDigit(body[k])

\* C4 as stated: when the field's content is not a valid integer (empty, or
\* text that is no number) the check treats it as 0: for every minimum m >= 1
\* the field holds m after the check of a blur or a click.
C4_ParseFailureIsZero ==
    \A r \in Rows : HasField(r) =>
        \A o \in {BlurOutcome(r), RegionOutcome(r)} :
            \A e \in EnforceEffects(o.effects) :
                (~ValidInteger(e.before) /\ e.min >= 1) => e.after = ToString(e.min)

----------------------------------------------------------------------------
(* C7 *)

\* C7: whatever was activated before, a pointer-enter on star j makes exactly
\* the stars <= j active, and a pointer-leave after it, with no activation
\* between, makes exactly the stars <= the last activated one active (none
\* when no star was activated yet).
C7_HoverRestores ==
    \A r \in Rows : \A p \in WrapperPaths(kids[r]) : \A j \in DOMAIN Stars(r, p) :
        LET entered == IconEnter(r, Control(r, p), j).wrapper
            left == IconLeave(r, entered).wrapper
        IN  /\ Shows(entered, j)
            /\ Shows(left, hist.activated[r])

\* star 2 hovered on a row where star 1 was activated last
C7_Witness ==
    \E r \in Rows : \E p \in WrapperPaths(kids[r]) :
        /\ hist.activated[r] = 1
        /\ Shows(Control(r, p), 2)
        /\ Len(Stars(r, p)) >= 2

----------------------------------------------------------------------------
(* C8 *)

Selected(ks) == {NodeAt(ks, p).sel : p \in WrapperPaths(ks)}

OnlyRenders(es) == \A k \in DOMAIN es : es[k].ev = "render"

\* a star of row r whose hover listeners would do more than render is not
\* hovered in this step
HoverOnly(r) ==
    \A p \in WrapperPaths(kids[r]) : \A i \in DOMAIN Stars(r, p) :
        /\ ~OnlyRenders(IconEnter(r, Control(r, p), i).effects) => ~MouseEnter(r, p, i)
        /\ ~OnlyRenders(IconLeave(r, Control(r, p)).effects) => ~MouseLeave(r, p, i)

Hovered(r) ==
    \E p \in WrapperPaths(kids[r]) : \E i \in DOMAIN Stars(r, p) :
        MouseEnter(r, p, i) \/ MouseLeave(r, p, i)

Activated(r) ==
    \E p \in WrapperPaths(kids[r]) : \E i \in DOMAIN Stars(r, p) : ClickIcon(r, p, i)

\* C8: a pointer-enter or pointer-leave on a star changes neither
\* selectedValue nor any native value field and notifies nobody (a step that
\* changes one of them is no hover); a step that changes the selectedValue of
\* a control is the activation of one of its stars.
C8_HoverChangesNothing ==
    [][\A r \in Rows :
          /\ HoverOnly(r)
          /\ (value' # value \/ Selected(kids'[r]) # Selected(kids[r])) => ~Hovered(r)
          /\ (/\ Selected(kids[r]) # {}
              /\ Selected(kids'[r]) # {}
              /\ Selected(kids'[r]) # Selected(kids[r])) => Activated(r)]_vars

\* a star hovered on a row whose field and selection hold an activated value
C8_Witness ==
    \E r \in Rows : \E p \in WrapperPaths(kids[r]) :
        /\ HasField(r)
        /\ Control(r, p).sel = 2
        /\ value[r] = ToString(2)
        /\ Shows(Control(r, p), 1)

----------------------------------------------------------------------------
(* C5 *)

StarCounts == {Nullish(o.numStars, DefaultNumStars) : o \in SpacingOptions \cup UseOptions}

\* the row holds exactly one custom control, with a number of stars asked for
OneControl(r) ==
    /\ Cardinality(WrapperPaths(kids[r])) = 1
    /\ \A p \in WrapperPaths(kids[r]) : Len(Stars(r, p)) \in StarCounts

\* C5 as stated: construction is idempotent per row.  After applySpacing was
\* called two or more times on the root (and nothing else removed the native
\* control) and every deferred callback has run, every row holds exactly one
\* custom control with its stars, as after a single call.
C5_BuildTwice ==
    (/\ hist.applySpacing = 2
     /\ hist.removeNativeStars = 0
     /\ timers = <<>>)
    => \A r \in Rows : OneControl(r)

----------------------------------------------------------------------------
(* C6 *)

\* C6: for every configuration with count >= 1, the first construction on a
\* row (the applySpacing callback running on a row without the built marker)
\* yields one control of exactly count stars, with position indices 1..count
\* in ascending order, every star dimmed, and selectedValue = 0.
C6_FirstBuild ==
    [][\A k \in DOMAIN timers : \A r \in Rows :
          (RunApplySpacing(k) /\ ~built[r] /\ timers[k].numStars >= 1)
          => /\ built'[r]
             /\ Cardinality(WrapperPaths(kids'[r])) = 1
             /\ \A p \in WrapperPaths(kids'[r]) :
                   LET w == NodeAt(kids'[r], p)
                   IN  /\ Len(w.kids) = timers[k].numStars
                       /\ \A i \in DOMAIN w.kids :
                             w.kids[i].value = i /\ w.kids[i].opacity = Dimmed
                       /\ w.sel = 0]_vars

\* a row just built with the default count: five dimmed stars, none selected
C6_Witness ==
    \E r \in Rows : \E p \in WrapperPaths(kids[r]) :
        /\ built[r]
        /\ hist.applySpacing = 1
        /\ Len(Stars(r, p)) = DefaultNumStars
        /\ Control(r, p).sel = 0
        /\ \A i \in DOMAIN Stars(r, p) : Stars(r, p)[i].opacity = Dimmed

----------------------------------------------------------------------------
(* C9 *)

\* every node with class cls among the container's children and theirs
NodesOfClass(ks, cls) ==
    {<<k>> : k \in {k \in DOMAIN ks : ks[k].cls = cls}}
    \cup UNION {{<<k, j>> : j \in {j \in DOMAIN ks[k].kids : ks[k].kids[j].cls = cls}}
                : k \in {k \in DOMAIN ks : IsFlex(ks[k])}}

\* one flex wrapper holding, in order, a left label, the control w, a right label
LabelledOnce(ks, w) ==
    /\ Cardinality(NodesOfClass(ks, "star-flex-wrapper")) = 1
    /\ Cardinality(NodesOfClass(ks, "star-label-left")) = 1
    /\ Cardinality(NodesOfClass(ks, "star-label-right")) = 1
    /\ Cardinality(WrapperPaths(ks)) = 1
    /\ \A f \in NodesOfClass(ks, "star-flex-wrapper") :
          /\ Len(f) = 1
          /\ Len(NodeAt(ks, f).kids) = 3
          /\ NodeAt(ks, f).kids[1].cls = "star-label-left"
          /\ NodeAt(ks, f).kids[2] = w
          /\ NodeAt(ks, f).kids[3].cls = "star-label-right"

\* C9: whenever the addLabels callback runs on a row that holds one custom
\* control, be it for the first call or a repeated one, the row afterwards
\* has exactly one flex wrapper holding, in order, one left label, the
\* control with its stars and its selectedValue as they were, and one right
\* label.
C9_LabelsOnce ==
    [][\A k \in DOMAIN timers : \A r \in Rows :
          (RunAddLabels(k) /\ Cardinality(WrapperPaths(kids[r])) = 1)
          => \A p \in WrapperPaths(kids[r]) : LabelledOnce(kids'[r], Control(r, p))]_vars

\* a labelled control that kept an activated star, with nothing pending
C9_Witness ==
    \E r \in Rows : \E p \in WrapperPaths(kids[r]) :
        /\ ParentIsFlex(p)
        /\ LabelledOnce(kids[r], Control(r, p))
        /\ Control(r, p).sel = DefaultNumStars
        /\ timers = <<>>

----------------------------------------------------------------------------
(* C10 *)

\* C10: after the documented usage (applySpacing, addLabels, enforceMinStar
\* in that order in one turn), once every deferred callback has run, every
\* row has exactly one custom control with count stars, wrapped by exactly
\* one left and one right label, and a row with a native value field has the
\* minimum check attached to the field and to the rating region.
C10_DocumentedUsage ==
    (hist.applySpacing >= 1 /\ timers = <<>>)
    => \A r \in Rows :
          /\ Cardinality(WrapperPaths(kids[r])) = 1
          /\ \A p \in WrapperPaths(kids[r]) :
                /\ Len(Stars(r, p)) = hist.numStars
                /\ LabelledOnce(kids[r], Control(r, p))
          /\ HasField(r) => (blurL[r] # <<>> /\ clickL[r] # <<>>)

\* the question set up by the documented usage, all callbacks run
C10_Witness ==
    /\ hist.applySpacing = 1
    /\ timers = <<>>
    /\ \A r \in Rows : built[r] /\ HasField(r) /\ Len(blurL[r]) = 1

----------------------------------------------------------------------------
(* C11 *)

\* the color the claim gives the star at 0-based position pos of its row
ColorByRowPosition(colors, pos) ==
    IF pos < Len(colors) THEN colors[pos + 1] ELSE colors[Len(colors)]

\* C11 as stated: when the applyColorGradient callback runs with a non-empty
\* colors list on a root whose rows hold custom controls, then in every row
\* the star at 0-based position pos of its row gets colors[pos] if
\* pos < length(colors), and the last color of the list otherwise.
C11_ColorsByRowPosition ==
    [][\A k \in DOMAIN timers :
          (/\ RunApplyColorGradient(k)
           /\ timers[k].colors # <<>>
           /\ \A r \in Rows : WrapperPaths(kids[r]) # {})
          => \A r \in Rows : \A p \in WrapperPaths(kids'[r]) :
                \A i \in DOMAIN NodeAt(kids'[r], p).kids :
                    NodeAt(kids'[r], p).kids[i].color
                        = ColorByRowPosition(timers[k].colors, i - 1)]_vars

----------------------------------------------------------------------------
(* C12 *)

\* the step is a public operation called with the root reference ref
CalledWith(ref) ==
    \/ \E given \in BOOLEAN :
          \/ \E o \in UseOptions : ApplySpacingCall(ref, given, o)
          \/ ApplyColorGradientCall(ref, given, DefaultGradient)
          \/ AddLabelsCall(ref, given, DefaultLabels)
    \/ EnforceMinStarCall(ref, Undefined)
    \/ RemoveNativeStarsCall(ref)

\* C12 as stated: a public operation called with a root reference that does
\* not resolve to an element (null, an unknown id, a non-element value) is a
\* silent no-op, whatever the options argument and also when it is left out:
\* no error reaches the caller, nothing of the DOM changes and no deferred
\* work is scheduled.
C12_UnresolvedIsNoOp ==
    [][\A ref \in RootRefs :
          (~Resolves(ref) /\ CalledWith(ref)) => UNCHANGED vars]_vars

----------------------------------------------------------------------------
(* C13 *)

\* the step is the call of a public transformation operation
PublicCall == \E ref \in RootRefs : CalledWith(ref)

\* C13 as stated: a public transformation operation (applySpacing,
\* applyColorGradient, addLabels, enforceMinStar, removeNativeStars) changes
\* nothing of the DOM in the turn in which it is called: containers, their
\* children and styles, the built markers, the fields and the listeners are
\* after the call as before it.
C13_CallsChangeNoDom ==
    [][PublicCall => UNCHANGED <<kids, style, built, value, blurL, clickL>>]_vars

----------------------------------------------------------------------------
(* C14 *)

\* the src of every star of the custom controls under the children ks
IconsOf(ks) ==
    UNION {{NodeAt(ks, p).kids[i].src : i \in DOMAIN NodeAt(ks, p).kids}
           : p \in WrapperPaths(ks)}

\* C14: a control built without an override (the applySpacing callback
\* running on a row without the built marker) gives every star the default
\* icon URL that is current when the callback runs; a step that changes the
\* default (a setStarIcon call) leaves the icon source of every star of
\* every control already built as it was; and setStarIcon with an empty URL
\* leaves the default unchanged (the default never becomes empty).
C14_IconAtConstruction ==
    [][/\ \A k \in DOMAIN timers : \A r \in Rows :
             (RunApplySpacing(k) /\ ~built[r] /\ timers[k].numStars >= 1)
             => IconsOf(kids'[r]) = {defaultStarIcon}
       /\ (\E u \in IconUrls : SetStarIcon(u))
             => \A r \in Rows : kids'[r] = kids[r]
       /\ SetStarIcon("") => defaultStarIcon' = defaultStarIcon
       /\ defaultStarIcon' # ""]_vars

\* a control built with the icon a.svg while the default is b.svg by now
C14_Witness ==
    \E r \in Rows :
        /\ built[r]
        /\ IconsOf(kids[r]) = {"a.svg"}
        /\ defaultStarIcon = "b.svg"

----------------------------------------------------------------------------
(* C15 *)

\* the pixels count stars of size iconSize need with spacing between them
NeededWidth(count, iconSize, spacing) == count * iconSize + (count - 1) * spacing

\* C15: for every count >= 1, iconSize and spacing, when the applySpacing
\* callback has run, the width reserved for the control region of every row
\* that has one (the min-width of the control cell of the row element) is at
\* least count * iconSize + (count - 1) * spacing pixels.
C15_WidthReserved ==
    [][\A k \in DOMAIN timers : \A r \in Rows :
          (RunApplySpacing(k) /\ HasTr(r) /\ timers[k].numStars >= 1)
          => /\ style'[r].minWidth.def
             /\ style'[r].minWidth.val
                   >= NeededWidth(timers[k].numStars, timers[k].starSize,
                                  timers[k].spacing)]_vars

\* a row of five stars of 30 pixels 20 apart, with 230 pixels reserved
C15_Witness ==
    \E r \in Rows : \E p \in WrapperPaths(kids[r]) :
        /\ HasTr(r)
        /\ Len(Stars(r, p)) = 5
        /\ Control(r, p).gap = 20
        /\ Stars(r, p)[1].width = 30
        /\ style[r].minWidth = Num(230)

----------------------------------------------------------------------------
(* C16 *)

\* what the click listener of a star does itself: writes, notifications, renders
OfListener(e) == e.ev \in {"write", "input", "change", "render"}

\* C16: on every activation of star i in a row with a native value field the
\* listener's events occur in this order: i is written to the field, then
\* exactly one 'input' notification, then exactly one 'change' notification,
\* both with the field holding i, then the visual state is rendered for i;
\* no notification comes before the write.
C16_ActivationOrder ==
    \A r \in Rows : HasField(r) =>
        \A p \in WrapperPaths(kids[r]) : \A i \in DOMAIN Stars(r, p) :
            SelectSeq(ClickOutcome(r, p, i).effects, OfListener)
                = <<Wrote(r, ToString(i)),
                    Notified("input", r, ToString(i)),
                    Notified("change", r, ToString(i)),
                    Rendered(r, i)>>

\* star 2 activated on a row with a field: selected, shown and written
C16_Witness ==
    \E r \in Rows : \E p \in WrapperPaths(kids[r]) :
        /\ HasField(r)
        /\ hist.activated[r] = 2
        /\ Control(r, p).sel = 2
        /\ Shows(Control(r, p), 2)
        /\ value[r] = ToString(2)

----------------------------------------------------------------------------
(* C19 *)

IsNotification(e) == e.ev \in {"input", "change"}

\* the handler wrote the field: the click listener's write, or an enforce
\* check that replaced the content
WidgetWrote(es) ==
    \E k \in DOMAIN es :
        \/ es[k].ev = "write"
        \/ es[k].ev = "enforce" /\ es[k].after # es[k].before

\* The value the most recent notification on the field of row r carried once
\* a handler has made the effects es (a sequence of one value, or empty when
\* the field was never notified): the handler's last notification, else the
\* one of the last activation.
MostRecentNotified(r, es) ==
    LET ns == SelectSeq(es, IsNotification)
    IN  IF ns # <<>> THEN <<ns[Len(ns)].val>>
        ELSE IF hist.activated[r] # 0 THEN <<ToString(hist.activated[r])>>
        ELSE <<>>

\* the event was handled with the effects es, leaving the field holding v
NotifiedOf(r, es, v) == WidgetWrote(es) => MostRecentNotified(r, es) = <<v>>

\* C19 as stated: every write of the widget to a native value field is made
\* visible to the host.  Once a handler that wrote the field (a star's
\* activation, or the minimum check on a blur or a click) has run, the value
\* the most recent input/change notification on the field carried equals
\* the field's value.
C19_WritesAreNotified ==
    \A r \in Rows : HasField(r) =>
        /\ NotifiedOf(r, BlurOutcome(r).effects, BlurOutcome(r).value)
        /\ NotifiedOf(r, RegionOutcome(r).effects, RegionOutcome(r).value)
        /\ \A p \in WrapperPaths(kids[r]) : \A i \in DOMAIN Stars(r, p) :
              NotifiedOf(r, ClickOutcome(r, p, i).effects, ClickOutcome(r, p, i).value)

----------------------------------------------------------------------------
(* C17 *)

\* every star of the custom control of row r has a color assigned
Coloured(r) ==
    /\ WrapperPaths(kids[r]) # {}
    /\ \A p \in WrapperPaths(kids[r]) : \A i \in DOMAIN Stars(r, p) :
          Stars(r, p)[i].color # NoColor

\* C17 as stated: when applySpacing and applyColorGradient were called in
\* that order in one turn on the root, then once all deferred callbacks have
\* run every star of the custom control of every row has a color assigned.
C17_ColouredAfterBoth ==
    (hist.together /\ timers = <<>>) => \A r \in Rows : Coloured(r)

----------------------------------------------------------------------------
(* C18 *)

\* C18 as stated: in every state reached by applySpacing, removeNativeStars
\* and addLabels called in any order and number, a row carrying the built
\* marker holds exactly one custom control with its stars.
C18_MarkedRowHasControl ==
    \A r \in Rows : built[r] => OneControl(r)

----------------------------------------------------------------------------
(* C20 *)

\* C20: with two or more rows, each in its own row element with its own
\* native value field, a pointer-enter, a pointer-leave or an activation on
\* a star of one row leaves the control of every other row (its
\* selectedValue and visual state) and the field of every other row unchanged.
C20_OtherRowsUntouched ==
    [][\A r \in Rows :
          (Hovered(r) \/ Activated(r))
          => \A q \in Rows \ {r} : kids'[q] = kids[q] /\ value'[q] = value[q]]_vars

\* two rows with fields of their own, each with another star selected and written
C20_Witness ==
    /\ NumRows >= 2
    /\ \A r \in Rows : HasField(r)
    /\ \E p \in WrapperPaths(kids[1]) : Control(1, p).sel = 1
    /\ \E p \in WrapperPaths(kids[2]) : Control(2, p).sel = 2
    /\ value[1] = ToString(1)
    /\ value[2] = ToString(2)

====
